---- MODULE Spec2Model ----
(***************************************************************************)
(* Model of the ETL pipeline orchestrator (src/src/etl/pipeline.py) with   *)
(* the parts of the loader (src/src/etl/loader.py) and of the extractor    *)
(* (src/etl/extractor.py) that it drives.                                  *)
(*                                                                         *)
(* Execution contexts:                                                     *)
(*   M  the context that owns the pipeline object and calls initialize(),  *)
(*      run_single_cycle(), run_continuous() and stop();                   *)
(*   T  a second context that may call stop() at any time;                 *)
(*   the SIGINT/SIGTERM handler, which interrupts M between two steps.     *)
(* Spec lets M call the public methods in any order; SpecMain restricts M  *)
(* to the call sequence of main().                                         *)
(* SpecHealth starts the pipeline with any cycle counters and reads them   *)
(* with get_statistics() and get_health_status(). SpecTransform is one     *)
(* transform() call of the transformer (src/etl/transformer.py) on any     *)
(* batch of samples under any cleaning configuration.                      *)
(***************************************************************************)
EXTENDS Integers, FiniteSets, Sequences, TLC

\* ---------------------------------------------------------------- bounds
\* Reads of datetime.now() (one per cycle started, one per run_continuous).
MaxClock == 3
\* Largest number of samples one extraction returns.
MaxPoints == 2

\* Largest number of samples in a transform() batch.
MaxSamples == 2
\* Largest retry_attempts a configuration gives the extractor.
MaxAttempts == 3
\* Largest number of values in the series of one Prometheus response.
MaxValues == 2
\* Largest number of points in a validate_data_format() argument.
MaxItems == 2

\* ------------------------------------------------------ program constants
DefaultInterval == 300
DefaultRetryDelay == 60
DefaultBatchSize == 1000
DefaultRetryAttempts == 3
\* len(str(value)) of a label that becomes a tag is below this.
TagLengthLimit == 100
\* Values a configuration file or a caller may give instead of the defaults.
CfgInterval == 30
CfgRetryDelay == 120
ArgInterval == 10

\* Python's None, where the other values are strings.
None == "None"
\* Python's None, where the other values are numbers (a time, a length, a delay).
Unset == 0 - 1
\* Outcomes of a call: what it returned, or that it raised.
True == "True"
False == "False"
Raise == "raise"

SourceKey == "prometheus_url"
required_fields == {"url", "token", "org", "bucket"}
ConfigKeys == {SourceKey} \cup required_fields

\* The 'pipeline' section of the configuration: absent, or giving both delays.
PipelineSections ==
    { [interval_seconds |-> Unset, retry_delay |-> Unset],
      [interval_seconds |-> CfgInterval, retry_delay |-> CfgRetryDelay] }

\* The 'monitoring' section of the configuration: without enable_metrics, or
\* switching it off.
MonitoringSections == { [enable_metrics |-> None], [enable_metrics |-> False] }

\* self.config = {} of the constructor.
EmptyConfig ==
    [keys |-> {},
     pipeline |-> [interval_seconds |-> Unset, retry_delay |-> Unset],
     monitoring |-> [enable_metrics |-> None]]

\* A configuration: the required keys it holds, its 'pipeline' section and its
\* 'monitoring' section. The configurations that switch the metrics off have
\* nothing else in them.
Configs ==
    [keys : SUBSET ConfigKeys, pipeline : PipelineSections,
     monitoring : {EmptyConfig.monitoring}]
    \cup [keys : {{}}, pipeline : {EmptyConfig.pipeline},
          monitoring : MonitoringSections]

\* The file at config_path: unreadable (missing, or not YAML), or a configuration.
ConfigFiles ==
    { [readable |-> FALSE, content |-> EmptyConfig] }
        \cup { [readable |-> TRUE, content |-> c] : c \in Configs }

Ctx == {"M", "T"}

VARIABLES
    config,           \* self.config: its 'pipeline' section, which is all that is read
                      \* of it outside initialize()
    extractor,        \* self.extractor: None or "obj"
    transformer,      \* self.transformer: None or "obj"
    loader,           \* self.loader: None or "obj"
    client,           \* self.loader.client: None, or "open"
    write_api,        \* self.loader.write_api: None or "api"
    query_api,        \* self.loader.query_api: None or "api"
    running,          \* self.running
    stats,            \* self.stats
    clock,            \* datetime.now(), as the number of reads so far
    pc,               \* position of M
    caller,           \* who called run_single_cycle: "loop" or "direct"
    ld_caller,        \* who called _initialize_client: "load_data" or "test_connection"
    init_result,      \* value initialize() returned, None before it returns
    extract_config,   \* initialize() local: the keys of the 'extract' section
    load_config,      \* initialize() local: the keys of the 'load.influxdb' section
    ext_check,        \* initialize(): outcome of extractor.test_connection(), None if not called
    ld_check,         \* initialize(): outcome of loader.test_connection(), None if not called
    cycle_start_time, \* run_single_cycle local
    raw_data,         \* run_single_cycle local: len(raw_data), Unset before extraction returns
    transformed_data, \* run_single_cycle local: len(transformed_data), Unset before transform returns
    load_success,     \* run_single_cycle local "success": what load_data returned, None before
    written,          \* load_data: the points it has written to the store, Unset before it returns
    cycle_exc,        \* run_single_cycle: the exception e raised inside its try block, None if none
    success,          \* value run_single_cycle() returns, held by its caller until it is used
    interval_seconds, \* run_continuous local
    retry_delay,      \* run_continuous local
    slept,            \* argument of the time.sleep() that just returned, until the loop test
    spc,              \* position of each context inside stop(); "done" once T's has returned
    err,              \* exception that left the last stop() of each context, None if it returned
    sigframe,         \* the frame argument of _signal_handler: M's position when interrupted
    exit_code,        \* process exit status, None while the process lives
    monitoring_config,\* self.config.get('monitoring', {})
    report,           \* what get_statistics() or get_health_status() is returning
    cleaning_config,  \* DataTransformer.cleaning_config
    samples,          \* the raw_data argument of a transform() call
    df,               \* transform(): the DataFrame, once _clean_data has returned it
    influxdb_data,    \* transform(): the list it returns
    texc,             \* transform(): the exception its except clause caught, None if none
    tpc,              \* position inside the transform() call
    retry_attempts,   \* PrometheusExtractor.retry_attempts
    requests,         \* extract_metrics(): the session.get() calls it has made
    response,         \* extract_metrics(): what the last session.get() brought back
    extracted,        \* extract_metrics(): the list it returns
    epc,              \* position inside the extract_metrics() call
    checked_data,     \* the data argument of a validate_data_format() call
    format_valid      \* what validate_data_format() returned, None before it returns

vars == << config, extractor, transformer, loader, client, write_api,
           query_api, running, stats, clock, pc, caller, ld_caller,
           init_result, extract_config, load_config, ext_check, ld_check,
           cycle_start_time, raw_data, transformed_data, load_success,
           written, cycle_exc,
           success, interval_seconds, retry_delay, slept,
           spc, err, sigframe, exit_code, monitoring_config, report,
           cleaning_config, samples, df, influxdb_data, texc, tpc,
           retry_attempts, requests, response, extracted, epc,
           checked_data, format_valid >>

\* Groups used in UNCHANGED clauses.
componentVars == << extractor, transformer, loader >>
loaderVars == << client, write_api, query_api >>
initLocals == << extract_config, load_config, ext_check, ld_check >>
initVars == << init_result, initLocals >>
cycleInputs == << cycle_start_time, raw_data, transformed_data, caller >>
cycleOutcome == << load_success, written, cycle_exc >>
cycleLocals == << cycleInputs, cycleOutcome >>
cycleVars == << cycleLocals, success >>
loopVars == << interval_seconds, retry_delay, slept >>
stopVars == << spc, err >>
procVars == << sigframe, exit_code >>
transformVars == << cleaning_config, samples, df, influxdb_data, texc, tpc >>
callVars == << retry_attempts, requests, response, extracted, epc,
               checked_data, format_valid >>
readVars == << report, transformVars, callVars >>

\* The default of transform_config.get('data_cleaning', ...)
DefaultCleaning ==
    [remove_nulls |-> TRUE, validate_timestamps |-> TRUE,
     remove_duplicates |-> TRUE, validate_value_ranges |-> TRUE]

\* No get_statistics() or get_health_status() call is returning.
NoReport ==
    [status |-> None, total_cycles |-> Unset, successful_cycles |-> Unset,
     failed_cycles |-> Unset, success_rate |-> << 0, 1 >>,
     total_data_points |-> Unset, last_run_time |-> Unset,
     start_time |-> Unset, is_running |-> FALSE]

\* No transform() call is going on.
TransformerIdle ==
    /\ cleaning_config = DefaultCleaning
    /\ samples = << >> /\ df = << >> /\ influxdb_data = << >>
    /\ texc = None /\ tpc = "idle"

\* self.stats of the constructor.
NoStats ==
    [cycles_completed |-> 0, cycles_failed |-> 0, total_data_points |-> 0,
     last_run_time |-> Unset, start_time |-> Unset]

\* ETLPipeline.__init__, but for self.stats and the configuration.
Fresh ==
    /\ extractor = None /\ transformer = None /\ loader = None
    /\ client = None /\ write_api = None /\ query_api = None
    /\ running = FALSE
    /\ clock = 0
    /\ pc = "top"
    /\ caller = None /\ ld_caller = None
    /\ init_result = None
    /\ extract_config = {} /\ load_config = {}
    /\ ext_check = None /\ ld_check = None
    /\ cycle_start_time = Unset /\ raw_data = Unset /\ transformed_data = Unset
    /\ load_success = None /\ written = Unset /\ cycle_exc = None
    /\ success = None
    /\ interval_seconds = Unset /\ retry_delay = Unset /\ slept = Unset
    /\ spc = [c \in Ctx |-> "idle"]
    /\ err = [c \in Ctx |-> None]
    /\ sigframe = None /\ exit_code = None
    /\ report = NoReport

\* No response of Prometheus has been received.
NoResponse == [kind |-> "none", values |-> << >>]

\* No extract_metrics() or validate_data_format() call is going on.
NoCalls ==
    /\ retry_attempts = DefaultRetryAttempts /\ requests = 0
    /\ response = NoResponse /\ extracted = << >> /\ epc = "idle"
    /\ checked_data = << >> /\ format_valid = None

\* ETLPipeline.__init__
Init ==
    /\ Fresh
    /\ config = EmptyConfig.pipeline
    /\ monitoring_config = EmptyConfig.monitoring
    /\ stats = NoStats
    /\ TransformerIdle
    /\ NoCalls

Alive == pc # "exited"


\* Frames that have returned leave nothing behind.
NoInitLocals ==
    /\ extract_config' = {} /\ load_config' = {}
    /\ ext_check' = None /\ ld_check' = None
NoCycleLocals ==
    /\ cycle_start_time' = Unset /\ raw_data' = Unset /\ transformed_data' = Unset
    /\ load_success' = None /\ written' = Unset /\ cycle_exc' = None
    /\ caller' = None
NoLoopLocals == interval_seconds' = Unset /\ retry_delay' = Unset /\ slept' = Unset


\* ------------------------------------------------------------ initialize()

\* extract_config.get('prometheus_url') is set
HasSource(section) == SourceKey \in section

\* Variant of HasDestination: one destination setting is enough.
HasSomeDestination(section) == \E field \in required_fields : field \in section

\* every field of required_fields is in load_config
HasDestination(section) == \A field \in required_fields : field \in section

\* initialize() is about to return r.
InitializeReturns(r) ==
    /\ init_result' = r
    /\ pc' = "in_return"

\* initialize(), up to the construction of the three components: the file at
\* config_path is loaded and checked, and each failure raises into the
\* method's own except clause, which returns False.
Initialize ==
    /\ pc = "top"
    /\ init_result = None
    /\ success' = None
    /\ \E file \in ConfigFiles :
        IF ~file.readable
        THEN /\ InitializeReturns(False)
             /\ UNCHANGED << config, monitoring_config, extract_config, load_config, componentVars,
                             loaderVars >>
        ELSE /\ config' = file.content.pipeline
             /\ monitoring_config' = file.content.monitoring
             /\ extract_config' = file.content.keys \cap {SourceKey}
             /\ IF ~HasSource(file.content.keys \cap {SourceKey})
                THEN /\ InitializeReturns(False)
                     /\ UNCHANGED << load_config, componentVars, loaderVars >>
                ELSE /\ extractor' = "obj"
                     /\ transformer' = "obj"
                     /\ load_config' = file.content.keys \cap required_fields
                     /\ IF ~HasDestination(file.content.keys \cap required_fields)
                        THEN /\ InitializeReturns(False)
                             /\ UNCHANGED << loader, loaderVars >>
                        ELSE /\ loader' = "obj"
                             /\ client' = None /\ write_api' = None
                             /\ query_api' = None
                             /\ init_result' = None
                             /\ pc' = "in_test_extractor"
    /\ UNCHANGED << running, stats, clock, ld_caller, ext_check, ld_check,
                    cycleLocals, loopVars, stopVars, procVars >>
    /\ UNCHANGED readVars

\* self.extractor.test_connection() and the branch on its result. The method
\* returns True or False; were it to raise, the except clause of initialize()
\* would return False.
TestExtractor ==
    /\ pc = "in_test_extractor"
    /\ \E r \in {True, False, Raise} :
        /\ ext_check' = r
        /\ IF r = True
           THEN pc' = "tc_check" /\ UNCHANGED init_result
           ELSE InitializeReturns(False)
    /\ UNCHANGED << config, monitoring_config, componentVars, loaderVars, running, stats,
                    clock, ld_caller, extract_config, load_config,
                    ld_check, cycleVars, loopVars, stopVars, procVars >>
    /\ UNCHANGED readVars

\* loader.test_connection(): "if not self.client"
TcCheck ==
    /\ pc = "tc_check"
    /\ IF client = None
       THEN pc' = "lc_client" /\ ld_caller' = "test_connection"
       ELSE pc' = "tc_query" /\ UNCHANGED ld_caller
    /\ UNCHANGED << config, monitoring_config, componentVars, loaderVars, running, stats,
                    clock, initVars, cycleVars, loopVars, stopVars,
                    procVars >>
    /\ UNCHANGED readVars

\* loader.test_connection(): the query, and initialize()'s branch on the result.
TcQuery ==
    /\ pc = "tc_query"
    /\ \E r \in {True, False, Raise} :
        /\ (query_api = None => r = False)
        /\ ld_check' = r
        /\ InitializeReturns(IF r = True THEN True ELSE False)
    /\ UNCHANGED << config, monitoring_config, componentVars, loaderVars, running, stats,
                    clock, ld_caller, extract_config, load_config,
                    ext_check, cycleVars, loopVars, stopVars, procVars >>
    /\ UNCHANGED readVars

\* initialize() returns to its caller.
InitializeReturn ==
    /\ pc = "in_return"
    /\ pc' = "top"
    /\ NoInitLocals
    /\ UNCHANGED << config, monitoring_config, componentVars, loaderVars, running, stats,
                    clock, ld_caller, init_result, cycleVars, loopVars,
                    stopVars, procVars >>
    /\ UNCHANGED readVars

\* ------------------------------------------------------ cycle accounting

\* Variant of Completed: the empty cycle is counted as a failed one.
CompletedAsFailure(s, t) ==
    [s EXCEPT !.cycles_failed = @ + 1, !.last_run_time = t]

\* A cycle that ended with nothing to load.
Completed(s, t) ==
    [s EXCEPT !.cycles_completed = @ + 1, !.last_run_time = t]

\* A cycle whose load succeeded with n transformed points.
Loaded(s, n, t) ==
    [s EXCEPT !.cycles_completed = @ + 1, !.total_data_points = @ + n,
              !.last_run_time = t]

\* Variant of Failed: the failed cycle is counted as a completed one as well.
FailedAndCompleted(s) ==
    [s EXCEPT !.cycles_failed = @ + 1, !.cycles_completed = @ + 1]

\* A cycle whose load failed, or that raised.
Failed(s) ==
    [s EXCEPT !.cycles_failed = @ + 1]

\* Variant of CycleReturns: a load that failed is tried again.
CycleReturnsRetrying(r, s) ==
    IF pc = "ld_write" /\ r = False
    THEN pc' = "ld_check" /\ UNCHANGED << success, stats >>
    ELSE success' = r /\ stats' = s /\ pc' = "cy_return"

\* run_single_cycle() is about to return r, leaving the statistics as s.
CycleReturns(r, s) ==
    /\ success' = r
    /\ stats' = s
    /\ pc' = "cy_return"

\* Variant of AfterRaise: the AttributeError of a missing component is not
\* caught and reaches the caller of run_single_cycle.
AfterRaiseEscaping(e, from) ==
    IF e = "AttributeError"
    THEN IF from = "loop" THEN "rc_except" ELSE "top"
    ELSE "cy_return"

\* Where the exception e, raised inside the try block of run_single_cycle,
\* leaves M: "except Exception" catches every exception a component raises,
\* and the AttributeError of a call on a component that is None.
AfterRaise(e, from) == "cy_return"

\* A call inside the try block of run_single_cycle raises e.
CycleRaises(e) ==
    /\ cycle_exc' = e
    /\ IF AfterRaise(e, caller) = "cy_return"
       THEN CycleReturns(False, Failed(stats))
       ELSE pc' = AfterRaise(e, caller) /\ UNCHANGED << success, stats >>

\* The exception of a method call on component obj: the AttributeError of a
\* missing component, or whatever the component lets through.
RaisedBy(obj) == IF obj = None THEN "AttributeError" ELSE "Exception"

\* ------------------------------------------- loader._initialize_client()

\* _initialize_client() returned False to its caller, which returns False too:
\* test_connection() to initialize(), load_data() to run_single_cycle().
LcReturnsFalse ==
    /\ ld_caller' = None
    /\ IF ld_caller = "test_connection"
       THEN /\ ld_check' = False
            /\ InitializeReturns(False)
            /\ UNCHANGED << stats, success, extract_config, load_config, ext_check,
                            load_success, written >>
       ELSE /\ load_success' = False /\ written' = 0
            /\ CycleReturns(False, Failed(stats))
            /\ UNCHANGED initVars

\* _initialize_client() returned True to its caller.
LcReturnsTrue ==
    /\ ld_caller' = None
    /\ pc' = IF ld_caller = "test_connection" THEN "tc_query" ELSE "ld_write"
    /\ UNCHANGED << stats, success, initVars, load_success, written >>

\* self.client = InfluxDBClient(...)
LcClient ==
    /\ pc = "lc_client"
    /\ \/ /\ client' = "open"
          /\ pc' = "lc_write_api"
          /\ UNCHANGED << stats, success, initVars, ld_caller, load_success, written >>
       \/ /\ LcReturnsFalse
          /\ UNCHANGED client
    /\ UNCHANGED << config, monitoring_config, componentVars, write_api, query_api, running,
                    clock, cycleInputs, cycle_exc, loopVars, stopVars, procVars >>
    /\ UNCHANGED readVars

\* self.write_api = self.client.write_api(...)
LcWriteApi ==
    /\ pc = "lc_write_api"
    /\ IF client = None
       THEN LcReturnsFalse /\ UNCHANGED write_api
       ELSE /\ write_api' = "api"
            /\ pc' = "lc_query_api"
            /\ UNCHANGED << stats, success, initVars, ld_caller, load_success, written >>
    /\ UNCHANGED << config, monitoring_config, componentVars, client, query_api, running,
                    clock, cycleInputs, cycle_exc, loopVars, stopVars, procVars >>
    /\ UNCHANGED readVars

\* self.query_api = self.client.query_api()
LcQueryApi ==
    /\ pc = "lc_query_api"
    /\ IF client = None
       THEN LcReturnsFalse /\ UNCHANGED query_api
       ELSE query_api' = "api" /\ LcReturnsTrue
    /\ UNCHANGED << config, monitoring_config, componentVars, client, write_api, running,
                    clock, cycleInputs, cycle_exc, loopVars, stopVars, procVars >>
    /\ UNCHANGED readVars

\* ------------------------------------------------------ loader.load_data()

\* The batches of a list of n items: range(0, len(data), self.batch_size)
NumBatches(n) == (n + DefaultBatchSize - 1) \div DefaultBatchSize

\* The items (1..n) of batch b.
Batch(n, b) ==
    { i \in 1..n : (b - 1) * DefaultBatchSize < i /\ i <= b * DefaultBatchSize }

\* The batch loop of load_data from batch b on, total_loaded points written so
\* far: the items in bad raise while their Point is built and are skipped; the
\* write of batch failing raises (failing = 0: no write raises). The result is
\* what load_data returns, and how many points the store accepted.
RECURSIVE WriteBatches(_, _, _, _, _)
WriteBatches(n, bad, failing, b, total_loaded) ==
    IF b > NumBatches(n)
    THEN [ok |-> total_loaded > 0, written |-> total_loaded]
    ELSE LET points == Batch(n, b) \ bad
         IN  IF points = {}
             THEN WriteBatches(n, bad, failing, b + 1, total_loaded)
             ELSE IF b = failing
                  THEN [ok |-> FALSE, written |-> total_loaded]
                  ELSE WriteBatches(n, bad, failing, b + 1,
                                    total_loaded + Cardinality(points))

\* load_data, once the client is there, on a list of n points.
LoadData(n, bad, failing) == WriteBatches(n, bad, failing, 1, 0)

\* ------------------------------------------------------ run_single_cycle()

\* The first lines of run_single_cycle: cycle_start_time = datetime.now()
EnterCycle(from) ==
    /\ clock < MaxClock
    /\ cycle_start_time' = clock
    /\ clock' = clock + 1
    /\ raw_data' = Unset
    /\ transformed_data' = Unset
    /\ load_success' = None
    /\ written' = Unset
    /\ cycle_exc' = None
    /\ success' = None
    /\ caller' = from
    /\ pc' = "cy_extract"

\* M calls run_single_cycle() itself.
CallRunSingleCycle ==
    /\ pc = "top"
    /\ EnterCycle("direct")
    /\ UNCHANGED << config, monitoring_config, componentVars, loaderVars, running, stats,
                    ld_caller, initVars, loopVars, stopVars, procVars >>
    /\ UNCHANGED readVars

\* raw_data = self.extractor.get_basic_metrics(), and the empty case.
CyExtract ==
    /\ pc = "cy_extract"
    /\ \/ /\ extractor # None
          /\ \E n \in 0..MaxPoints :
              /\ raw_data' = n
              /\ IF n = 0
                 THEN CycleReturns(True, Completed(stats, cycle_start_time))
                 ELSE pc' = "cy_transform" /\ UNCHANGED << success, stats >>
          /\ UNCHANGED cycle_exc
       \/ \* the call raises: an AttributeError when self.extractor is None
          /\ CycleRaises(RaisedBy(extractor))
          /\ UNCHANGED raw_data
    /\ UNCHANGED << config, monitoring_config, componentVars, loaderVars, running, clock,
                    caller, ld_caller, initVars, cycle_start_time,
                    transformed_data, load_success, written, loopVars, stopVars,
                    procVars >>
    /\ UNCHANGED readVars

\* transformed_data = self.transformer.transform(raw_data), and the empty case.
CyTransform ==
    /\ pc = "cy_transform"
    /\ \/ /\ transformer # None
          /\ \E m \in 0..raw_data :
              /\ transformed_data' = m
              /\ IF m = 0
                 THEN CycleReturns(True, Completed(stats, cycle_start_time))
                 ELSE pc' = "ld_check" /\ UNCHANGED << success, stats >>
          /\ UNCHANGED cycle_exc
       \/ \* the call raises: an AttributeError when self.transformer is None
          /\ CycleRaises(RaisedBy(transformer))
          /\ UNCHANGED transformed_data
    /\ UNCHANGED << config, monitoring_config, componentVars, loaderVars, running, clock,
                    caller, ld_caller, initVars, cycle_start_time, raw_data,
                    load_success, written, loopVars, stopVars, procVars >>
    /\ UNCHANGED readVars

\* self.loader.load_data(transformed_data), up to "if not self.client".
LdCheck ==
    /\ pc = "ld_check"
    /\ \/ /\ loader # None
          /\ IF client = None
             THEN pc' = "lc_client" /\ ld_caller' = "load_data"
             ELSE pc' = "ld_write" /\ UNCHANGED ld_caller
          /\ UNCHANGED << success, stats, cycle_exc >>
       \/ \* the call raises: an AttributeError when self.loader is None
          /\ CycleRaises(RaisedBy(loader))
          /\ UNCHANGED ld_caller
    /\ UNCHANGED << config, monitoring_config, componentVars, loaderVars, running, clock,
                    initVars, cycleInputs, load_success, written, loopVars, stopVars,
                    procVars >>
    /\ UNCHANGED readVars

\* The batch loop of load_data, and run_single_cycle's accounting of its result.
LdWrite ==
    /\ pc = "ld_write"
    /\ \E bad \in SUBSET (1..transformed_data),
          failing \in 0..NumBatches(transformed_data) :
        LET res == LoadData(transformed_data, bad, failing)
        IN  \* self.write_api.write raises when stop() has reset write_api
            /\ (write_api = None => ~res.ok /\ res.written = 0)
            /\ load_success' = IF res.ok THEN True ELSE False
            /\ written' = res.written
            /\ IF res.ok
               THEN CycleReturns(True,
                        Loaded(stats, transformed_data, cycle_start_time))
               ELSE CycleReturns(False, Failed(stats))
    /\ UNCHANGED << config, monitoring_config, componentVars, loaderVars, running, clock,
                    ld_caller, initVars, cycleInputs, cycle_exc, loopVars,
                    stopVars, procVars >>
    /\ UNCHANGED readVars

\* run_single_cycle() returns to its caller.
CycleReturn ==
    /\ pc = "cy_return"
    /\ pc' = IF caller = "loop" THEN "rc_log" ELSE "top"
    /\ NoCycleLocals
    /\ UNCHANGED << config, monitoring_config, componentVars, loaderVars, running, stats,
                    clock, ld_caller, initVars, success, loopVars, stopVars,
                    procVars >>
    /\ UNCHANGED readVars

\* ------------------------------------------------------- run_continuous()

\* interval_seconds: the argument, else the configuration's, else 300
IntervalFor(arg, pipeline_config) ==
    IF arg # Unset THEN arg
    ELSE IF pipeline_config.interval_seconds # Unset
         THEN pipeline_config.interval_seconds
         ELSE DefaultInterval

\* retry_delay: the configuration's, else 60
RetryDelayFor(pipeline_config) ==
    IF pipeline_config.retry_delay # Unset THEN pipeline_config.retry_delay
    ELSE DefaultRetryDelay

\* Variant of RunContinuous: a new run starts its statistics afresh.
RunContinuousResetting(arg) ==
    /\ pc = "top"
    /\ clock < MaxClock
    /\ success' = None
    /\ interval_seconds' = IntervalFor(arg, config)
    /\ retry_delay' = RetryDelayFor(config)
    /\ running' = TRUE
    /\ stats' = [NoStats EXCEPT !.start_time = clock]
    /\ clock' = clock + 1
    /\ slept' = Unset
    /\ pc' = "rc_while"
    /\ UNCHANGED << config, monitoring_config, componentVars, loaderVars,
                    ld_caller, initVars, cycleLocals, stopVars, procVars,
                    readVars >>

\* run_continuous(arg), up to the first test of the while loop.
RunContinuous(arg) ==
    /\ pc = "top"
    /\ clock < MaxClock
    /\ success' = None
    /\ interval_seconds' = IntervalFor(arg, config)
    /\ retry_delay' = RetryDelayFor(config)
    /\ running' = TRUE
    /\ stats' = [stats EXCEPT !.start_time = clock]
    /\ clock' = clock + 1
    /\ slept' = Unset
    /\ pc' = "rc_while"
    /\ UNCHANGED << config, monitoring_config, componentVars, loaderVars, ld_caller, initVars, cycleLocals, stopVars, procVars >>
    /\ UNCHANGED readVars

\* M calls run_continuous, with or without an interval.
CallRunContinuous == \E arg \in {Unset, ArgInterval} : RunContinuous(arg)

\* Variant of LoopCond: "while True".
LoopForever == TRUE

\* "while self.running"
LoopCond == running

\* The loop test holds: the next cycle starts.
RcStartCycle ==
    /\ pc = "rc_while"
    /\ LoopCond
    /\ EnterCycle("loop")
    /\ slept' = Unset
    /\ UNCHANGED << config, monitoring_config, componentVars, loaderVars, running, stats,
                    ld_caller, initVars, interval_seconds, retry_delay,
                    stopVars, procVars >>
    /\ UNCHANGED readVars

\* The loop ends: self.running = False, and run_continuous returns.
RcReturns ==
    /\ running' = FALSE
    /\ pc' = "top"
    /\ NoLoopLocals
    /\ success' = None

\* The loop test fails.
RcLoopExit ==
    /\ pc = "rc_while"
    /\ ~LoopCond
    /\ RcReturns
    /\ UNCHANGED << config, monitoring_config, componentVars, loaderVars, stats, clock,
                    ld_caller, initVars, cycleLocals, stopVars, procVars >>
    /\ UNCHANGED readVars

\* "if not success" and self._log_statistics(), which may raise.
RcLog ==
    /\ pc = "rc_log"
    /\ pc' \in {"rc_sleep", "rc_except"}
    /\ success' = None
    /\ UNCHANGED << config, monitoring_config, componentVars, loaderVars, running, stats,
                    clock, ld_caller, initVars, cycleLocals, loopVars, stopVars, procVars >>
    /\ UNCHANGED readVars

\* time.sleep(interval_seconds): returns, raises, or raises KeyboardInterrupt,
\* which breaks out of the loop.
RcSleep ==
    /\ pc = "rc_sleep"
    /\ \/ /\ slept' = interval_seconds
          /\ pc' = "rc_while"
          /\ UNCHANGED << running, interval_seconds, retry_delay, success >>
       \/ /\ pc' = "rc_except"
          /\ UNCHANGED << running, loopVars, success >>
       \/ RcReturns
    /\ UNCHANGED << config, monitoring_config, componentVars, loaderVars, stats, clock,
                    ld_caller, initVars, cycleLocals, stopVars, procVars >>
    /\ UNCHANGED readVars

\* Variant of AfterBackoff: the except clause leaves run_continuous.
AfterBackoffLeaves == "top"

\* Where the "except Exception" clause of the loop leads.
AfterBackoff == "rc_while"

\* "except Exception": time.sleep(retry_delay), then the loop test again. The
\* delays a configuration gives are durations time.sleep accepts, so the sleep
\* returns.
RcExcept ==
    /\ pc = "rc_except"
    /\ slept' = retry_delay
    /\ pc' = AfterBackoff
    /\ UNCHANGED << config, monitoring_config, componentVars, loaderVars, running, stats,
                    clock, ld_caller, initVars, cycleVars,
                    interval_seconds, retry_delay, stopVars, procVars >>
    /\ UNCHANGED readVars

\* ------------------------------------------------------------------ stop()

\* Variant of HasComponent: close() is called without the guard.
AnyComponent(obj) == TRUE

\* "if self.extractor:", "if self.loader:"
HasComponent(obj) == obj # None

\* stop() of context c returns, or is left by the exception e.
StopReturns(c, e) ==
    /\ spc' = [spc EXCEPT ![c] = IF c = "M" THEN "idle" ELSE "done"]
    /\ err' = [err EXCEPT ![c] = e]
    /\ pc' = IF c = "M" THEN "top" ELSE pc

\* Context c calls stop(); M does so between two of its other calls.
\* self.running = False, then the two guarded close() calls: extractor.close()
\* changes nothing here, loader.close() is entered when there is a loader.
\* Calling close() on a component that is None would raise AttributeError.
Stop(c) ==
    /\ Alive
    /\ spc[c] \in {"idle", "done"}
    /\ c = "M" => pc = "top"
    /\ success' = IF c = "M" THEN None ELSE success
    /\ running' = FALSE
    /\ IF HasComponent(extractor) /\ extractor = None
       THEN StopReturns(c, "AttributeError")
       ELSE IF HasComponent(loader)
            THEN IF loader = None
                 THEN StopReturns(c, "AttributeError")
                 ELSE /\ spc' = [spc EXCEPT ![c] = "c_close"]
                      /\ err' = [err EXCEPT ![c] = None]
                      /\ pc' = IF c = "M" THEN "in_stop" ELSE pc
            ELSE StopReturns(c, None)
    /\ UNCHANGED << config, monitoring_config, componentVars, loaderVars, stats, clock,
                    ld_caller, initVars, cycleLocals, loopVars, procVars >>
    /\ UNCHANGED readVars

\* loader.close(): "if self.client: self.client.close()", self.client = None
CloseClient(c) ==
    /\ Alive
    /\ spc[c] = "c_close"
    /\ client' = None
    /\ spc' = [spc EXCEPT ![c] = "c_write_api"]
    /\ UNCHANGED << config, monitoring_config, componentVars, write_api, query_api, running,
                    stats, clock, pc, ld_caller, initVars, cycleVars,
                    loopVars, err, procVars >>
    /\ UNCHANGED readVars

\* loader.close(): self.write_api = None
ResetWriteApi(c) ==
    /\ Alive
    /\ spc[c] = "c_write_api"
    /\ write_api' = None
    /\ spc' = [spc EXCEPT ![c] = "c_query_api"]
    /\ UNCHANGED << config, monitoring_config, componentVars, client, query_api, running,
                    stats, clock, pc, ld_caller, initVars, cycleVars,
                    loopVars, err, procVars >>
    /\ UNCHANGED readVars

\* loader.close(): self.query_api = None, and stop() returns.
ResetQueryApi(c) ==
    /\ Alive
    /\ spc[c] = "c_query_api"
    /\ query_api' = None
    /\ StopReturns(c, None)
    /\ UNCHANGED << config, monitoring_config, componentVars, client, write_api, running,
                    stats, clock, ld_caller, initVars, cycleVars,
                    loopVars, procVars >>
    /\ UNCHANGED readVars

\* ------------------------------------------------------- _signal_handler()

\* Where sys.exit(0) in the handler leaves M, interrupted at frame: SystemExit
\* is no Exception, so no except clause of run_single_cycle, run_continuous or
\* main catches it, and the process ends.
AfterSignal(frame) == "exited"

\* The process ends: its frames and its contexts are gone.
ProcessEnds ==
    /\ NoInitLocals /\ NoCycleLocals /\ NoLoopLocals
    /\ success' = None
    /\ ld_caller' = None
    /\ spc' = [c \in Ctx |-> "idle"]
    /\ report' = NoReport

\* SIGINT or SIGTERM: the handler interrupts M wherever it is, runs stop() to
\* its end and calls sys.exit(0).
Signal ==
    /\ Alive
    /\ sigframe' = pc
    /\ running' = FALSE
    /\ IF HasComponent(loader)
       THEN client' = None /\ write_api' = None /\ query_api' = None
       ELSE UNCHANGED loaderVars
    /\ pc' = AfterSignal(pc)
    /\ IF AfterSignal(pc) = "exited"
       THEN exit_code' = 0 /\ ProcessEnds
       ELSE UNCHANGED << exit_code, initLocals, cycleVars, loopVars,
                         ld_caller, spc, report >>
    /\ UNCHANGED << config, monitoring_config, componentVars, stats, clock, init_result, err >>
    /\ UNCHANGED << transformVars, callVars >>

\* ------------------------------------- get_statistics(), get_health_status()

\* The success rates below which the status is 'critical', and 'warning'.
CriticalBelow == 50
WarningBelow == 80

\* success_rate: cycles_completed / total_cycles * 100, kept as the fraction
\* << 100 * cycles_completed, total_cycles >>, and 0 when no cycle has run.
SuccessRate(completed, total_cycles) ==
    IF total_cycles > 0 THEN << 100 * completed, total_cycles >> ELSE << 0, 1 >>

\* Variant of RateBelow: rate <= percent.
RateAtMost(rate, percent) == rate[1] <= percent * rate[2]

\* rate < percent. The float the code compares, completed / total * 100, is on
\* the same side of 50 and of 80 as this fraction for every pair of counters
\* up to 400.
RateBelow(rate, percent) == rate[1] < percent * rate[2]

\* The dictionary get_statistics() returns, for the statistics s and the flag r.
Statistics(s, r) ==
    [status |-> None,
     total_cycles |-> s.cycles_completed + s.cycles_failed,
     successful_cycles |-> s.cycles_completed,
     failed_cycles |-> s.cycles_failed,
     success_rate |-> SuccessRate(s.cycles_completed,
                                  s.cycles_completed + s.cycles_failed),
     total_data_points |-> s.total_data_points,
     last_run_time |-> s.last_run_time,
     start_time |-> s.start_time,
     is_running |-> r]

\* health_status of get_health_status(), from the dictionary of get_statistics()
HealthStatus(st) ==
    IF st.total_cycles > 0
    THEN IF RateBelow(st.success_rate, CriticalBelow) THEN "critical"
         ELSE IF RateBelow(st.success_rate, WarningBelow) THEN "warning"
         ELSE "healthy"
    ELSE "healthy"

\* monitoring_config.get('enable_metrics', True)
EnableMetrics(monitoring) == monitoring.enable_metrics # False

\* A call of M that only reads the pipeline is about to return r.
Reports(r) ==
    /\ pc = "top"
    /\ report' = r
    /\ pc' = "rp_return"
    /\ UNCHANGED << config, monitoring_config, componentVars, loaderVars,
                    running, stats, clock, ld_caller, initVars, cycleVars,
                    loopVars, stopVars, procVars, transformVars, callVars >>

\* M calls get_statistics().
GetStatistics == Reports(Statistics(stats, running))

\* M calls get_health_status(). Its uptime_seconds, a read of the clock that
\* changes nothing, is left out of the dictionary.
GetHealthStatus ==
    Reports(IF ~EnableMetrics(monitoring_config)
            THEN [NoReport EXCEPT !.status = "monitoring_disabled"]
            ELSE [Statistics(stats, running) EXCEPT
                     !.status = HealthStatus(Statistics(stats, running))])

\* get_statistics() or get_health_status() returns to M.
ReportReturn ==
    /\ pc = "rp_return"
    /\ pc' = "top"
    /\ report' = NoReport
    /\ UNCHANGED << config, monitoring_config, componentVars, loaderVars,
                    running, stats, clock, ld_caller, initVars, cycleVars,
                    loopVars, stopVars, procVars, transformVars, callVars >>

\* ------------------------------------------------------------------ main()

\* Variant of InitializeSucceeded: main() ignores what initialize() returned.
InitializeReturned == init_result # None

\* "if pipeline.initialize():"
InitializeSucceeded == init_result = True

\* pipeline.initialize()
MainInitialize == Initialize

\* pipeline.run_continuous()
MainRun ==
    /\ init_result # None
    /\ InitializeSucceeded
    /\ stats.start_time = Unset
    /\ RunContinuous(Unset)

\* sys.exit(1) after a failed initialize()
MainExitFailed ==
    /\ pc = "top"
    /\ init_result # None
    /\ ~InitializeSucceeded
    /\ pc' = "exited"
    /\ exit_code' = 1
    /\ ProcessEnds
    /\ UNCHANGED << config, monitoring_config, componentVars, loaderVars, running, stats,
                    clock, init_result, err, sigframe >>
    /\ UNCHANGED << transformVars, callVars >>

\* run_continuous() returned: main() ends.
MainEnds ==
    /\ pc = "top"
    /\ stats.start_time # Unset
    /\ pc' = "exited"
    /\ exit_code' = 0
    /\ ProcessEnds
    /\ UNCHANGED << config, monitoring_config, componentVars, loaderVars, running, stats,
                    clock, init_result, err, sigframe >>
    /\ UNCHANGED << transformVars, callVars >>

\* ------------------------------------------------- DataTransformer: the data

\* A key a sample does not have; NaN, which pandas puts in its place.
Missing == "<missing>"
NaN == "NaN"

\* Metric names.
Up == "up"
RequestRate == "rate(http_requests_total[5m])"
LatencyQuantile ==
    "histogram_quantile(0.95, rate(http_request_duration_seconds_bucket[5m]))"
ErrorRate == "rate(http_requests_total{status=~\"5..\"}[5m])"

\* self.valid_metrics, by default
valid_metrics ==
    { Up, "http_requests_total", "http_request_duration_seconds_bucket",
      RequestRate, LatencyQuantile, ErrorRate }

\* Values of a sample's 'value': a number, or what is not one: None ("none"),
\* a string ("str"), no such key ("missing"), and NaN ("nan") once in a frame.
Num(n) == [kind |-> "num", num |-> n]
NotNum(kind) == [kind |-> kind, num |-> 0]

\* Values of a label: a string; an integer is of kind "int", with the text
\* str() gives it.
Text(t) == [kind |-> "str", text |-> t]

\* str(value) of a label value
Str(v) == [kind |-> "str", text |-> v.text]

\* len() of the strings of the model; a name such as "x*150" stands for a
\* string of that many characters.
StrLen(t) ==
    CASE t = "x*50" -> 50
      [] t = "x*99" -> 99
      [] t = "x*100" -> 100
      [] t = "x*150" -> 150
      [] t = "unknown" -> 7
      [] t = "billing" -> 7
      [] t = "gauge" -> 5
      [] t = "8080" -> 4
      [] t = "api" -> 3
      [] t = "h1" -> 2

\* Values of a sample's 'labels': a dict, or what is not one: None ("none"),
\* a string ("str"), no such key ("missing"), and NaN ("nan") once in a frame.
Dict(items) == [kind |-> "dict", items |-> items]
NotDict(kind) == [kind |-> kind, items |-> << >>]

\* The label map of a sample of service "api" on instance "h1".
GoodLabels == Dict([k \in {"job", "instance"} |->
                       IF k = "job" THEN Text("api") ELSE Text("h1")])

\* A label map with the job label and one more label.
JobAnd(key, v) == Dict([k \in {"job", key} |-> IF k = "job" THEN Text("api") ELSE v])

\* A label map with one label.
Only(key, v) == Dict([k \in {key} |-> v])

Sample(t, m, l, v) == [timestamp |-> t, metric_name |-> m, labels |-> l, value |-> v]

\* The samples batches are made of: metrics and values with a label map,
\* samples whose labels are None (which pandas can hash), label maps of every
\* shape, and timestamps that are None or missing. "cpu_usage" is not in
\* valid_metrics.
Samples ==
    { Sample("t1", m, GoodLabels, Num(n)) :
          m \in {Up, RequestRate}, n \in {0 - 1, 1, 2} }
    \cup { Sample("t1", Up, GoodLabels, Num(0)),
           Sample("t1", ErrorRate, GoodLabels, Num(0)),
           Sample("t1", LatencyQuantile, GoodLabels, Num(0 - 1)),
           Sample("t1", ErrorRate, GoodLabels, Num(0 - 1)),
           Sample("t1", "http_requests_total", GoodLabels, Num(0 - 1)),
           Sample("t1", "cpu_usage", GoodLabels, Num(1)),
           Sample("t1", Missing, GoodLabels, Num(1)),
           Sample("t1", Up, GoodLabels, NotNum("none")),
           Sample("t1", Up, GoodLabels, NotNum("missing")),
           Sample("t1", RequestRate, GoodLabels, NotNum("str")) }
    \cup { Sample("t1", Up, NotDict("none"), Num(n)) : n \in {0, 1} }
    \cup { Sample("t1", Up, l, Num(1)) :
              l \in { Dict(<< >>), NotDict("missing"), NotDict("str"),
                      JobAnd("env", Text("x*50")), JobAnd("env", Text("x*99")),
                      JobAnd("env", Text("x*100")), Only("env", Text("x*150")),
                      JobAnd("service", Text("billing")),
                      Only("metric_type", Text("gauge")),
                      Only("port", [kind |-> "int", text |-> "8080"]) } }
    \cup { Sample(t, Up, GoodLabels, Num(1)) : t \in {None, Missing} }

\* ------------------------------------------ DataTransformer: the DataFrame

\* Whether a sample has the key col.
HasKey(sample, col) ==
    CASE col = "value" -> sample.value.kind # "missing"
      [] col = "labels" -> sample.labels.kind # "missing"
      [] OTHER -> sample[col] # Missing

\* df.columns of pd.DataFrame(raw_data): the keys that some sample has.
Columns(data) ==
    { col \in {"timestamp", "metric_name", "labels", "value"} :
          \E i \in 1..Len(data) : HasKey(data[i], col) }

\* The row pd.DataFrame makes of a sample: a missing key becomes NaN, and so
\* does a value of None if the column is numeric.
Row(sample, numeric) ==
    [timestamp |-> IF sample.timestamp = Missing THEN NaN ELSE sample.timestamp,
     metric_name |-> IF sample.metric_name = Missing THEN NaN ELSE sample.metric_name,
     labels |-> IF sample.labels.kind = "missing" THEN NotDict("nan")
                ELSE sample.labels,
     value |-> IF sample.value.kind = "missing" THEN NotNum("nan")
               ELSE IF sample.value.kind = "none" /\ numeric THEN NotNum("nan")
               ELSE sample.value]

\* The rows of pd.DataFrame(raw_data). The 'value' column is numeric
\* (float64) if some sample gives a number and none gives a string;
\* otherwise it holds the objects as they are.
Frame(data) ==
    LET numeric == /\ \E i \in 1..Len(data) : data[i].value.kind = "num"
                   /\ \A i \in 1..Len(data) : data[i].value.kind # "str"
    IN  [i \in 1..Len(data) |-> Row(data[i], numeric)]

\* The result of a step on the rows: the rows it leaves, or the exception it raises.
Rows(rows) == [exc |-> None, rows |-> rows]
Raises(e) == [exc |-> e, rows |-> << >>]

\* --------------------------------------------- DataTransformer: _clean_data

\* df.dropna(subset=['value'])
DropNullValues(cols, rows) ==
    IF "value" \notin cols THEN Raises("KeyError")
    ELSE Rows(SelectSeq(rows, LAMBDA row : row.value.kind \notin {"nan", "none"}))

\* df[df['timestamp'].notna()]
NotNaTimestamps(cols, rows) ==
    IF "timestamp" \notin cols THEN Raises("KeyError")
    ELSE Rows(SelectSeq(rows, LAMBDA row : row.timestamp \notin {NaN, None}))

\* df[df['metric_name'].isin(self.valid_metrics)], if the column exists
ValidMetrics(cols, rows) ==
    IF "metric_name" \in cols
    THEN Rows(SelectSeq(rows, LAMBDA row : row.metric_name \in valid_metrics))
    ELSE Rows(rows)

\* The key of a row on the columns of subset, none of which is 'value': pandas
\* takes None and NaN for the same key, and the labels that can be hashed
\* are told apart by their kind.
KeyOn(subset, row) ==
    [col \in subset |->
        IF col = "labels"
        THEN IF row.labels.kind \in {"nan", "none"} THEN "null" ELSE row.labels.kind
        ELSE IF row[col] \in {NaN, None} THEN "null" ELSE row[col]]

\* The rows whose key no earlier row has.
RECURSIVE FirstOfEachKey(_, _)
FirstOfEachKey(subset, rows) ==
    IF rows = << >> THEN << >>
    ELSE LET init == SubSeq(rows, 1, Len(rows) - 1)
             last == rows[Len(rows)]
         IN  IF \E i \in 1..Len(init) : KeyOn(subset, init[i]) = KeyOn(subset, last)
             THEN FirstOfEachKey(subset, init)
             ELSE Append(FirstOfEachKey(subset, init), last)

\* df.drop_duplicates(subset=...): an empty frame is returned as it is, a
\* column that does not exist is a KeyError, and a dict cannot be hashed.
DropDuplicates(cols, rows) ==
    LET subset == IF "metric_name" \in cols
                  THEN {"timestamp", "metric_name", "labels"}
                  ELSE {"timestamp"}
    IN  IF rows = << >> THEN Rows(rows)
        ELSE IF ~(subset \subseteq cols) THEN Raises("KeyError")
        ELSE IF "labels" \in subset /\ \E i \in 1..Len(rows) : rows[i].labels.kind = "dict"
             THEN Raises("TypeError")
        ELSE Rows(FirstOfEachKey(subset, rows))

\* The metrics that validation_rules has a predicate for.
RuledMetrics == {Up, RequestRate, LatencyQuantile, ErrorRate}

\* Variant of Validator: 'up' is 0 or more, like the other three.
ValidatorOfRates(metric, v) ==
    CASE v.kind = "num" -> IF v.num >= 0 THEN "True" ELSE "False"
      [] v.kind = "nan" -> "False"
      [] OTHER -> "raise"

\* The predicate of a metric on a value: "True", "False" or "raise".
\* x in [0, 1] is False for whatever is not 0 or 1; x >= 0 is False for NaN
\* and a TypeError for None and for a string.
Validator(metric, v) ==
    IF metric = Up
    THEN IF v.kind = "num" /\ v.num \in {0, 1} THEN "True" ELSE "False"
    ELSE CASE v.kind = "num" -> IF v.num >= 0 THEN "True" ELSE "False"
           [] v.kind = "nan" -> "False"
           [] OTHER -> "raise"

\* _validate_value_ranges(df)
ValidateValueRanges(cols, rows) ==
    IF "metric_name" \notin cols \/ "value" \notin cols THEN Rows(rows)
    ELSE IF \E i \in 1..Len(rows) :
               /\ rows[i].metric_name \in RuledMetrics
               /\ Validator(rows[i].metric_name, rows[i].value) = "raise"
         THEN Raises("TypeError")
    ELSE Rows(SelectSeq(rows, LAMBDA row :
                 row.metric_name \in RuledMetrics
                     => Validator(row.metric_name, row.value) = "True"))

\* The result after a step that is taken if its flag is set and the steps
\* before it have raised nothing; step is what it makes of their rows.
Then(before, flag, step) ==
    IF before.exc # None \/ ~flag THEN before ELSE step

\* _clean_data(df), up to the validation of the value ranges
CleanData(cfg, cols, rows) ==
    LET nulls == Then(Rows(rows), cfg.remove_nulls, DropNullValues(cols, rows))
        stamps == Then(nulls, cfg.validate_timestamps,
                       NotNaTimestamps(cols, nulls.rows))
        metrics == Then(stamps, TRUE, ValidMetrics(cols, stamps.rows))
    IN  Then(metrics, cfg.remove_duplicates, DropDuplicates(cols, metrics.rows))

\* ------------------------------------- DataTransformer: _to_influxdb_format

\* labels.get(key, 'unknown')
Get(items, key) == IF key \in DOMAIN items THEN items[key] ELSE Text("unknown")

\* Variant of AdditionalTags: a value of TagLengthLimit characters is a tag too.
AdditionalTagsUpToLimit(items) ==
    { key \in DOMAIN items \ {"job", "instance"} :
          StrLen(Str(items[key]).text) <= TagLengthLimit }

\* The additional labels that become tags.
AdditionalTags(items) ==
    { key \in DOMAIN items \ {"job", "instance"} :
          StrLen(Str(items[key]).text) < TagLengthLimit }

\* The point of a row with the label map items: the three tags, then the
\* additional labels, which are assigned over them.
Point(cols, row, items) ==
    LET metric_name == IF "metric_name" \in cols THEN row.metric_name ELSE "unknown"
        tags == [k \in {"service", "instance", "metric_type"} |->
                    CASE k = "service" -> Get(items, "job")
                      [] k = "instance" -> Get(items, "instance")
                      [] OTHER -> Text(metric_name)]
        more == AdditionalTags(items)
    IN  [measurement |-> "health_metrics",
         tags |-> [k \in DOMAIN tags \cup more |->
                      IF k \in more THEN Str(items[k]) ELSE tags[k]],
         fields |-> [value |-> row.value],
         timestamp |-> row.timestamp]

\* What the body of the loop does with a row: "ok", or the exception it raises.
\* NaN and a string have no .get; row['value'] and row['timestamp'] need
\* their columns.
RowOutcome(cols, row) ==
    IF "labels" \in cols /\ row.labels.kind \in {"nan", "str"} THEN "AttributeError"
    ELSE IF "value" \notin cols \/ "timestamp" \notin cols THEN "KeyError"
    ELSE "ok"

\* row.get('labels', {}) or {}
LabelsOf(cols, row) ==
    IF "labels" \in cols /\ row.labels.kind = "dict" THEN row.labels.items ELSE << >>

\* Variant of ToInfluxdbFormat: the point is appended inside the loop over the
\* labels as well, once for each additional tag.
RECURSIVE ToInfluxdbFormatPerTag(_, _)
ToInfluxdbFormatPerTag(cols, rows) ==
    IF rows = << >> THEN [exc |-> None, points |-> << >>]
    ELSE LET before == ToInfluxdbFormatPerTag(cols, SubSeq(rows, 1, Len(rows) - 1))
             row == rows[Len(rows)]
             point == Point(cols, row, LabelsOf(cols, row))
             more == Cardinality(AdditionalTags(LabelsOf(cols, row)))
         IN  IF RowOutcome(cols, row) # "ok" THEN before
             ELSE [exc |-> None,
                   points |-> before.points \o [i \in 1..(more + 1) |-> point]]

\* _to_influxdb_format(df): the points of the rows; "except Exception" in the
\* loop catches whatever a row raises, and the loop goes on with the next row.
RECURSIVE ToInfluxdbFormat(_, _)
ToInfluxdbFormat(cols, rows) ==
    IF rows = << >> THEN [exc |-> None, points |-> << >>]
    ELSE LET before == ToInfluxdbFormat(cols, SubSeq(rows, 1, Len(rows) - 1))
             row == rows[Len(rows)]
             outcome == RowOutcome(cols, row)
         IN  IF outcome = "ok"
             THEN [exc |-> None,
                   points |-> Append(before.points,
                                     Point(cols, row, LabelsOf(cols, row)))]
             ELSE before

\* ------------------------------------------------ DataTransformer.transform()

\* What a transform() call leaves alone.
pipelineVars == << config, monitoring_config, componentVars, loaderVars, running,
                   stats, clock, pc, ld_caller, initVars, cycleVars, loopVars,
                   stopVars, procVars, report >>

\* Variant of TransformCatches: except KeyError.
TransformCatchesKeyError(e) == e = "KeyError"

\* "except Exception" of transform() catches every exception of pandas.
TransformCatches(e) == TRUE

\* The exception e is raised inside the try block of transform(): it returns
\* [], or the exception leaves it.
TransformRaises(e) ==
    /\ texc' = e
    /\ IF TransformCatches(e)
       THEN influxdb_data' = << >> /\ tpc' = "returned"
       ELSE influxdb_data' = influxdb_data /\ tpc' = "raised"
    /\ df' = df

\* transform(raw_data), up to the DataFrame.
TransformCall ==
    /\ tpc = "idle"
    /\ IF samples = << >>
       THEN influxdb_data' = << >> /\ tpc' = "returned" /\ df' = df
       ELSE df' = Frame(samples) /\ tpc' = "clean" /\ influxdb_data' = influxdb_data
    /\ UNCHANGED << cleaning_config, samples, texc, pipelineVars, callVars >>

\* _clean_data: the nulls, the timestamps, the metrics and the duplicates.
Clean ==
    /\ tpc = "clean"
    /\ LET cleaned == CleanData(cleaning_config, Columns(samples), df)
       IN  IF cleaned.exc # None THEN TransformRaises(cleaned.exc)
           ELSE /\ df' = cleaned.rows
                /\ tpc' = "ranges"
                /\ UNCHANGED << influxdb_data, texc >>
    /\ UNCHANGED << cleaning_config, samples, pipelineVars, callVars >>

\* _clean_data: the value ranges, and the test of df.empty that follows.
ValidateRanges ==
    /\ tpc = "ranges"
    /\ LET valid == Then(Rows(df), cleaning_config.validate_value_ranges,
                         ValidateValueRanges(Columns(samples), df))
       IN  IF valid.exc # None THEN TransformRaises(valid.exc)
           ELSE /\ df' = valid.rows
                /\ IF valid.rows = << >>
                   THEN influxdb_data' = << >> /\ tpc' = "returned"
                   ELSE influxdb_data' = influxdb_data /\ tpc' = "reshape"
                /\ texc' = texc
    /\ UNCHANGED << cleaning_config, samples, pipelineVars, callVars >>

\* _to_influxdb_format, and the return of its list.
Reshape ==
    /\ tpc = "reshape"
    /\ LET made == ToInfluxdbFormat(Columns(samples), df)
       IN  IF made.exc # None THEN TransformRaises(made.exc)
           ELSE /\ influxdb_data' = made.points
                /\ tpc' = "returned"
                /\ UNCHANGED << df, texc >>
    /\ UNCHANGED << cleaning_config, samples, pipelineVars, callVars >>

\* A transformer of any cleaning configuration, about to transform any batch.
InitTransform ==
    /\ Fresh
    /\ config = EmptyConfig.pipeline
    /\ monitoring_config = EmptyConfig.monitoring
    /\ stats = NoStats
    /\ cleaning_config \in [remove_nulls : BOOLEAN, validate_timestamps : BOOLEAN,
                           remove_duplicates : BOOLEAN,
                           validate_value_ranges : BOOLEAN]
    /\ samples \in UNION { [1..n -> Samples] : n \in 0..MaxSamples }
    /\ df = << >> /\ influxdb_data = << >>
    /\ texc = None /\ tpc = "idle"
    /\ NoCalls

NextTransform == TransformCall \/ Clean \/ ValidateRanges \/ Reshape

SpecTransform == InitTransform /\ [][NextTransform]_vars

\* ------------------------------------ PrometheusExtractor.extract_metrics()
\* The value texts of a Prometheus response: numbers, the three texts
\* Prometheus uses for values that are not finite, and a text float() rejects.
RawValues == {"0", "1", "NaN", "+Inf", "-Inf", "abc"}

\* What session.get() can bring back: a RequestException (no connection, a
\* timeout, an HTTP error status), a body whose status is not 'success', a
\* body with status 'success' whose data _parse_response cannot walk, and a
\* body with status 'success' carrying one series of values.
Responses ==
    [kind : {"RequestException", "error", "malformed"}, values : {<< >>}]
    \cup [kind : {"success"},
          values : UNION { [1..n -> RawValues] : n \in 0..MaxValues }]

\* parsed_value of _parse_response: float(value) unless value is 'NaN'.
ParseValue(value) ==
    IF value = "NaN" THEN NotNum("none")
    ELSE CASE value = "0" -> Num(0)
           [] value = "1" -> Num(1)
           [] value = "+Inf" -> NotNum("inf")
           [] value = "-Inf" -> NotNum("-inf")
           [] OTHER -> NotNum("ValueError")

\* _parse_response: the values of the samples it appends, in order.
ParseResponse(values) ==
    SelectSeq([i \in 1..Len(values) |-> ParseValue(values[i])],
              LAMBDA v : v.kind \notin {"none", "ValueError"})

\* Variant of ExtractAttempt: the exception of a failed last attempt leaves
\* extract_metrics.
ExtractAttemptRaising(r) ==
    /\ epc = "loop"
    /\ requests < retry_attempts
    /\ requests' = requests + 1
    /\ response' = r
    /\ IF r.kind = "success"
       THEN extracted' = ParseResponse(r.values) /\ epc' = "returned"
       ELSE IF requests' = retry_attempts
            THEN extracted' = << >> /\ epc' = "raised"
            ELSE UNCHANGED << extracted, epc >>
    /\ UNCHANGED << retry_attempts, checked_data, format_valid >>
    /\ UNCHANGED << transformVars, pipelineVars >>

\* One turn of the loop of extract_metrics: the request, and what follows it.
ExtractAttempt(r) ==
    /\ epc = "loop"
    /\ requests < retry_attempts
    /\ requests' = requests + 1
    /\ response' = r
    /\ IF r.kind = "success"
       THEN extracted' = ParseResponse(r.values) /\ epc' = "returned"
       ELSE IF requests' = retry_attempts
            THEN extracted' = << >> /\ epc' = "returned"
            ELSE UNCHANGED << extracted, epc >>
    /\ UNCHANGED << retry_attempts, checked_data, format_valid >>
    /\ UNCHANGED << transformVars, pipelineVars >>

\* The loop of extract_metrics ran out of attempts without returning.
ExtractLoopEnds ==
    /\ epc = "loop"
    /\ requests >= retry_attempts
    /\ extracted' = << >>
    /\ epc' = "returned"
    /\ UNCHANGED << retry_attempts, requests, response, checked_data, format_valid >>
    /\ UNCHANGED << transformVars, pipelineVars >>

\* An extractor built from some configuration, at the call of extract_metrics.
InitExtract ==
    /\ Fresh
    /\ config = EmptyConfig.pipeline
    /\ monitoring_config = EmptyConfig.monitoring
    /\ stats = NoStats
    /\ TransformerIdle
    /\ retry_attempts \in 0..MaxAttempts
    /\ requests = 0 /\ response = NoResponse
    /\ extracted = << >> /\ epc = "loop"
    /\ checked_data = << >> /\ format_valid = None

NextExtract == (\E r \in Responses : ExtractAttempt(r)) \/ ExtractLoopEnds

SpecExtract == InitExtract /\ [][NextExtract]_vars

\* ------------------------------------ InfluxDBLoader.validate_data_format()
\* The points a caller may hand over, by what isinstance() and truth see of
\* each key: a key that is missing, a measurement that is a string, the empty
\* string or None, fields that are a dict or the empty dict, a timestamp that
\* is a string, a float, a datetime (what the transformer emits) or None.
Items ==
    [measurement : {"missing", "str", "empty", "None"},
     fields : {"missing", "dict", "empty"},
     timestamp : {"missing", "str", "float", "datetime", "None"}]

\* The body of the loop of validate_data_format: no check of it returns False.
ItemValid(item) ==
    /\ "missing" \notin {item.measurement, item.fields, item.timestamp}
    /\ item.measurement = "str"
    /\ item.fields = "dict"
    /\ item.timestamp \in {"str", "int", "float"}

\* validate_data_format(data)
Validate ==
    /\ format_valid = None
    /\ format_valid' =
          IF checked_data = << >> THEN True
          ELSE IF \A i \in 1..Len(checked_data) : ItemValid(checked_data[i])
               THEN True ELSE False
    /\ UNCHANGED << retry_attempts, requests, response, extracted, epc, checked_data >>
    /\ UNCHANGED << transformVars, pipelineVars >>

\* A loader, at the call of validate_data_format.
InitValidate ==
    /\ Fresh
    /\ config = EmptyConfig.pipeline
    /\ monitoring_config = EmptyConfig.monitoring
    /\ stats = NoStats
    /\ TransformerIdle
    /\ retry_attempts = DefaultRetryAttempts /\ requests = 0
    /\ response = NoResponse /\ extracted = << >> /\ epc = "idle"
    /\ checked_data \in UNION { [1..n -> Items] : n \in 0..MaxItems }
    /\ format_valid = None

SpecValidate == InitValidate /\ [][Validate]_vars

\* ---------------------------------------------------------- specifications

\* The steps M takes inside initialize() and inside run_single_cycle().
MCall ==
    \/ TestExtractor \/ TcCheck \/ TcQuery \/ InitializeReturn
    \/ LcClient \/ LcWriteApi \/ LcQueryApi
    \/ CyExtract \/ CyTransform \/ LdCheck \/ LdWrite \/ CycleReturn

\* The steps M takes inside run_continuous(), but for the failing loop test.
MLoop == RcStartCycle \/ RcLog \/ RcSleep \/ RcExcept

\* The steps M takes inside a method it has called.
MBody == MCall \/ MLoop \/ RcLoopExit \/ ReportReturn

\* The steps of loader.close() inside a stop() call of context c.
CloseBody(c) ==
    \/ CloseClient(c) \/ ResetWriteApi(c) \/ ResetQueryApi(c)

\* M calls the public methods in any order, initialize() once at most; T calls
\* stop() at any time, and a signal may arrive at any time.
Next ==
    \/ Initialize
    \/ CallRunSingleCycle
    \/ CallRunContinuous
    \/ GetStatistics
    \/ GetHealthStatus
    \/ MBody
    \/ \E c \in Ctx : Stop(c)
    \/ \E c \in Ctx : CloseBody(c)
    \/ Signal

Spec == Init /\ [][Next]_vars

\* The same, with every call always going on: no step of a method hangs.
FairSpec ==
    /\ Spec
    /\ WF_vars(MBody)
    /\ \A c \in Ctx : WF_vars(CloseBody(c))

\* Largest counter value of the statistics read by SpecHealth.
MaxCount == 10

\* A pipeline whose run_single_cycle() has been called until c cycles had
\* completed and f had failed, none with anything to load, under either
\* 'monitoring' section.
InitHealth ==
    /\ Fresh
    /\ config = EmptyConfig.pipeline
    /\ monitoring_config \in MonitoringSections
    /\ stats \in { [cycles_completed |-> c, cycles_failed |-> f,
                    total_data_points |-> 0,
                    last_run_time |-> IF c > 0 THEN 0 ELSE Unset,
                    start_time |-> Unset] : c \in 0..MaxCount, f \in 0..MaxCount }
    /\ TransformerIdle
    /\ NoCalls

NextHealth ==
    \/ GetStatistics
    \/ GetHealthStatus
    \/ ReportReturn

\* get_statistics() and get_health_status() on every pair of counters.
SpecHealth == InitHealth /\ [][NextHealth]_vars

\* The process that main() starts: one context, and the signal handler. Its
\* loop test never fails: only stop() resets self.running, and the handler,
\* the one caller of stop(), ends the process right after it.
NextMain ==
    \/ MainInitialize
    \/ MainRun
    \/ MainExitFailed
    \/ MainEnds
    \/ MCall
    \/ MLoop
    \/ Signal

SpecMain == Init /\ [][NextMain]_vars

\* ------------------------------------------------------------------ claims

\* M is inside _initialize_client().
InitClientPCs == {"lc_client", "lc_write_api", "lc_query_api"}

\* M is inside run_single_cycle().
InCycle ==
    \/ pc \in {"cy_extract", "cy_transform", "ld_check", "ld_write", "cy_return"}
    \/ pc \in InitClientPCs /\ ld_caller = "load_data"

\* M is inside run_continuous().
InLoop ==
    \/ pc \in {"rc_while", "rc_log", "rc_sleep", "rc_except"}
    \/ InCycle /\ caller = "loop"

\* The step on which run_single_cycle() comes to its return statement.
CycleEnds == pc # "cy_return" /\ pc' = "cy_return"

\* C1: a cycle whose extraction returns nothing, or whose transformation of a
\* non-empty extraction returns nothing, returns True, adds one to
\* cycles_completed and leaves cycles_failed and total_data_points as they were.
C1_EmptyCycleCompletes ==
    [][ (/\ CycleEnds
         /\ cycle_exc' = None
         /\ \/ raw_data' = 0
            \/ raw_data' > 0 /\ transformed_data' = 0)
        => /\ success' = True
           /\ stats'.cycles_completed = stats.cycles_completed + 1
           /\ stats'.cycles_failed = stats.cycles_failed
           /\ stats'.total_data_points = stats.total_data_points ]_vars

\* A cycle is returning after a non-empty extraction that transformed to nothing,
\* and an earlier cycle has loaded points.
C1_Witness ==
    /\ pc = "cy_return"
    /\ raw_data > 0 /\ transformed_data = 0
    /\ success = True
    /\ stats.cycles_completed = 2
    /\ stats.total_data_points > 0

\* C2: when load_data returns False for a non-empty transformed list, the cycle
\* returns False, adds one to cycles_failed and leaves cycles_completed,
\* total_data_points and last_run_time as they were.
C2_FailedLoadCounted ==
    [][ (CycleEnds /\ load_success' = False)
        => /\ transformed_data > 0
           /\ success' = False
           /\ stats'.cycles_failed = stats.cycles_failed + 1
           /\ stats'.cycles_completed = stats.cycles_completed
           /\ stats'.total_data_points = stats.total_data_points
           /\ stats'.last_run_time = stats.last_run_time ]_vars

\* A cycle is returning after load_data returned False, an earlier cycle having
\* completed.
C2_Witness ==
    /\ pc = "cy_return"
    /\ load_success = False
    /\ transformed_data > 0
    /\ stats.cycles_completed = 1
    /\ stats.cycles_failed = 1

C4_SignalWaitsForCycle ==
    [][ (InCycle /\ caller = "loop")
        => \/ InCycle'
           \/ pc' = "rc_log" /\ success' \in {True, False} ]_vars

\* C5: once stop() of another context has reset self.running while M is inside
\* run_continuous, no further cycle starts, and run_continuous is eventually
\* left with running = False.
C5_StopEndsLoop ==
    /\ [][ (InLoop /\ ~running) => ~(pc = "rc_while" /\ pc' = "cy_extract") ]_vars
    /\ [][ (InLoop /\ ~running) => ~running' ]_vars
    /\ (InLoop /\ ~running) ~> (~InLoop /\ ~running)

\* The stop() of T has returned while M, in a second cycle of the loop, is
\* still loading.
C5_Witness ==
    /\ pc = "ld_write" /\ caller = "loop"
    /\ ~running
    /\ spc["T"] = "done"
    /\ stats.cycles_completed + stats.cycles_failed = 1

\* The loader holds nothing, or there is no loader.
Released == loader # None => client = None /\ write_api = None /\ query_api = None

\* The fields of the pipeline and of its loader.
PipelineState ==
    << running, extractor, transformer, loader, client, write_api, query_api,
       config, stats >>

C7_NoClientAfterStop ==
    [][ (RcLoopExit /\ spc["T"] = "done") => client' = None ]_vars

\* The lifecycle state of the process main() starts. The signal handler runs
\* stop() to its end in one step, so Stopping is never observed.
Phase ==
    IF \/ pc \in {"in_test_extractor", "tc_check", "tc_query", "in_return"}
       \/ pc \in InitClientPCs /\ ld_caller = "test_connection"
    THEN "Initializing"
    ELSE IF init_result = False THEN "Failed"
    ELSE IF pc = "exited" THEN "Stopped"
    ELSE IF running THEN "Running"
    ELSE IF stats.start_time # Unset THEN "Stopped"
    ELSE IF init_result = None THEN "Uninitialized"
    ELSE "Initializing"

Rank(phase) ==
    CASE phase = "Uninitialized" -> 0
      [] phase = "Initializing" -> 1
      [] phase = "Running" -> 2
      [] phase = "Stopping" -> 3
      [] phase = "Stopped" -> 4
      [] phase = "Failed" -> 5

C9_InitializeResult ==
    /\ ld_check # None => ext_check = True
    /\ (\/ pc \in {"tc_check", "tc_query"}
        \/ pc \in InitClientPCs /\ ld_caller = "test_connection")
       => ext_check = True
    /\ pc = "in_return"
       => /\ init_result \in {True, False}
          /\ init_result = True
             <=> /\ SourceKey \in extract_config
                 /\ required_fields \subseteq load_config
                 /\ ext_check = True
                 /\ ld_check = True

\* initialize() is returning True.
C9_Witness ==
    /\ pc = "in_return"
    /\ init_result = True
    /\ ext_check = True /\ ld_check = True
    /\ client = "open"

\* C10: an exception that escapes an iteration of the loop does not end it:
\* the except clause sleeps retry_delay, which is the configuration's or 60,
\* and comes back to the loop test, where a cycle starts unless a stop was
\* requested; only a signal ends the process in between.
C10_LoopSurvivesException ==
    /\ [][ (pc = "rc_except" /\ pc' # "rc_except")
           => \/ pc' = "exited"
              \/ /\ pc' = "rc_while"
                 /\ slept' = retry_delay
                 /\ slept' # interval_seconds
                 /\ UNCHANGED << running, interval_seconds, retry_delay >> ]_vars
    /\ [][ (pc = "rc_while" /\ running /\ pc' # "rc_while")
           => pc' \in {"cy_extract", "exited"} ]_vars
    /\ [](InLoop => retry_delay = IF config.retry_delay = Unset
                                   THEN 60 ELSE config.retry_delay)

\* Back at the loop test after the backoff of the default 60 seconds, no stop
\* requested, a cycle having run before the exception.
C10_Witness ==
    /\ pc = "rc_while"
    /\ running
    /\ slept = DefaultRetryDelay
    /\ retry_delay = DefaultRetryDelay
    /\ stats.cycles_completed = 1

\* C11: the delay slept in the except clause of the loop is longer than the
\* interval slept after an ordinary cycle.
C11_BackoffLongerThanInterval ==
    [][ (pc = "rc_except" /\ pc' = "rc_while") => slept' > interval_seconds ]_vars

\* C12: with monitoring enabled, get_health_status() reports 'healthy' when
\* no cycle has run or completed / (completed + failed) is at least 80%,
\* 'warning' when that rate is at least 50% and below 80%, and 'critical'
\* when it is below 50%.
C12_HealthClassification ==
    [][ (GetHealthStatus /\ monitoring_config.enable_metrics # False)
        => LET completed == stats.cycles_completed
               total == stats.cycles_completed + stats.cycles_failed
           IN  report'.status =
                   IF total = 0 \/ 100 * completed >= 80 * total THEN "healthy"
                   ELSE IF 100 * completed >= 50 * total THEN "warning"
                   ELSE "critical" ]_vars

\* get_health_status() is returning 'healthy' at a rate of exactly 80%.
C12_Witness ==
    /\ pc = "rp_return"
    /\ stats.cycles_completed = 4 /\ stats.cycles_failed = 1
    /\ report.status = "healthy"
    /\ report.total_cycles = 5

\* The three counters of the statistics s.
Counters(s) == << s.cycles_completed, s.cycles_failed, s.total_data_points >>

\* C13: cycles_completed, cycles_failed and total_data_points change only on
\* the step that ends a run_single_cycle() call, and never go down;
\* initialize(), the entry of run_continuous(), stop(), get_statistics() and
\* get_health_status() leave them as they are.
C13_CountersFrame ==
    [][ /\ Counters(stats') # Counters(stats) => InCycle /\ CycleEnds
        /\ stats'.cycles_completed >= stats.cycles_completed
        /\ stats'.cycles_failed >= stats.cycles_failed
        /\ stats'.total_data_points >= stats.total_data_points
        /\ (\/ Initialize \/ CallRunContinuous \/ Signal
            \/ GetStatistics \/ GetHealthStatus \/ ReportReturn
            \/ \E c \in Ctx : Stop(c) \/ CloseBody(c))
           => Counters(stats') = Counters(stats) ]_vars

\* run_continuous() has been entered again after a run that a stop() of T
\* ended, with the counters of the earlier cycles.
C13_Witness ==
    /\ pc = "rc_while" /\ running /\ slept = Unset
    /\ spc["T"] = "done"
    /\ stats.start_time >= 2
    /\ stats.last_run_time = 1
    /\ stats.cycles_completed = 1
    /\ stats.total_data_points > 0

\* C14: for every batch of raw samples and every cleaning configuration,
\* transform returns at most as many points as the batch has samples: the
\* frame never has more rows than the batch, nor the list more points than
\* the frame has rows.
C14_OutputNoLongerThanInput ==
    /\ Len(df) <= Len(samples)
    /\ Len(influxdb_data) <= Len(samples)
    /\ (tpc = "returned" /\ texc = None /\ samples # << >>) => Len(influxdb_data) <= Len(df)

\* A batch of two samples has given two points.
C14_Witness ==
    /\ tpc = "returned" /\ Len(samples) = 2 /\ Len(influxdb_data) = 2
    /\ ~cleaning_config.remove_duplicates

\* A sample that no cleaning step is meant to remove: it has a timestamp, a
\* metric of valid_metrics, a label map (or None for one), and a number that
\* the predicate of its metric, if it has one, accepts.
ValidSample(sample) ==
    /\ sample.timestamp \notin {Missing, None}
    /\ sample.metric_name \in valid_metrics
    /\ sample.labels.kind \in {"dict", "none"}
    /\ sample.value.kind = "num"
    /\ sample.metric_name \in RuledMetrics
           => Validator(sample.metric_name, sample.value) = "True"

\* C15: with remove_duplicates enabled, transform gives exactly one point for
\* a batch of two valid samples that are identical on timestamp, metric_name
\* and labels and differ in value.
C15_DuplicatesGiveOnePoint ==
    ( /\ tpc = "returned"
      /\ cleaning_config.remove_duplicates
      /\ Len(samples) = 2
      /\ ValidSample(samples[1]) /\ ValidSample(samples[2])
      /\ samples[1].timestamp = samples[2].timestamp
      /\ samples[1].metric_name = samples[2].metric_name
      /\ samples[1].labels = samples[2].labels
      /\ samples[1].value # samples[2].value )
    => Len(influxdb_data) = 1

\* C16: with validate_value_ranges enabled, the range validation of a frame
\* of samples with a metric name and a value, when it returns, removes the
\* samples whose metric has a predicate that their value fails and no other:
\* 'up' stays exactly with the value 0 or 1, the request rate, the latency
\* quantile and the error rate exactly with a value of 0 or more, and any
\* other metric whatever its value.
C16_RangeValidation ==
    [][ ( /\ ValidateRanges
          /\ cleaning_config.validate_value_ranges
          /\ {"metric_name", "value"} \subseteq Columns(samples)
          /\ texc' = None )
        => df' = SelectSeq(df, LAMBDA row :
                     CASE row.metric_name = Up
                            -> row.value.kind = "num" /\ row.value.num \in {0, 1}
                       [] row.metric_name \in {RequestRate, LatencyQuantile, ErrorRate}
                            -> row.value.kind = "num" /\ row.value.num >= 0
                       [] OTHER -> TRUE) ]_vars

\* Of 'up' with the value 2 and 'up' with the value 1, the validation has
\* left the second.
C16_Witness ==
    /\ tpc = "reshape"
    /\ cleaning_config.validate_value_ranges
    /\ samples = << Sample("t1", Up, GoodLabels, Num(2)),
                    Sample("t1", Up, GoodLabels, Num(1)) >>
    /\ df = << Sample("t1", Up, GoodLabels, Num(1)) >>

\* transform() has returned the points of the rows of df, each of which has a
\* label map or None for one.
Reshaped ==
    /\ tpc = "returned" /\ texc = None /\ df # << >>
    /\ {"timestamp", "value"} \subseteq Columns(samples)
    /\ \A i \in 1..Len(df) : df[i].labels.kind \in {"dict", "none"}

\* C17: every surviving sample has its point, and a label of it other than
\* job and instance is a tag of that point, with its stringified value, if
\* and only if that string is shorter than 100 characters; a longer one costs
\* the tag and not the point.
C17_ShortLabelsAreTags ==
    Reshaped =>
        /\ Len(influxdb_data) = Len(df)
        /\ \A i \in 1..Len(df) :
             \A key \in DOMAIN df[i].labels.items \ {"job", "instance"} :
                LET value == df[i].labels.items[key]
                    tags == influxdb_data[i].tags
                IN  (key \in DOMAIN tags /\ tags[key] = [kind |-> "str", text |-> value.text])
                        <=> StrLen(value.text) < 100

\* A label of 50 characters is a tag of the first point, and the point of the
\* sample with a label of 150 characters has no such tag.
C17_Witness ==
    /\ Reshaped
    /\ samples = << Sample("t1", Up, JobAnd("env", Text("x*50")), Num(1)),
                    Sample("t1", Up, Only("env", Text("x*150")), Num(1)) >>
    /\ Len(influxdb_data) = 2
    /\ influxdb_data[1].tags["env"] = Text("x*50")
    /\ "env" \notin DOMAIN influxdb_data[2].tags

\* C18: every point transform produces, whatever the label map of its sample
\* (one with a key named service or metric_type included), has the measurement
\* 'health_metrics', the job label or 'unknown' as its service tag, the
\* instance label or 'unknown' as its instance tag, the metric name as its
\* metric_type tag, the value as its only field, and the timestamp of the
\* sample.
C18_PointOfSample ==
    Reshaped =>
        /\ Len(influxdb_data) = Len(df)
        /\ \A i \in 1..Len(df) :
             LET labels == df[i].labels.items
                 point == influxdb_data[i]
             IN  /\ point.measurement = "health_metrics"
                 /\ point.tags["service"] =
                        IF "job" \in DOMAIN labels THEN labels["job"] ELSE Text("unknown")
                 /\ point.tags["instance"] =
                        IF "instance" \in DOMAIN labels THEN labels["instance"]
                        ELSE Text("unknown")
                 /\ "metric_name" \in Columns(samples)
                        => point.tags["metric_type"] = Text(df[i].metric_name)
                 /\ point.fields = [value |-> df[i].value]
                 /\ point.timestamp = df[i].timestamp

\* C19: no exception leaves transform, whatever the batch (samples without a
\* key or with a malformed field included): what is raised inside it ends in
\* an empty list, and so does an empty batch.
C19_TransformNeverRaises ==
    /\ tpc # "raised"
    /\ (tpc = "returned" /\ (texc # None \/ samples = << >>)) => influxdb_data = << >>

\* transform has returned after the KeyError of a batch whose samples have no
\* 'value'.
C19_Witness ==
    /\ tpc = "returned" /\ texc = "KeyError"
    /\ samples # << >>
    /\ \A i \in 1..Len(samples) : samples[i].value.kind = "missing"
    /\ influxdb_data = << >>

\* C20: a sample that fails costs its own row only: of a batch of one valid
\* sample and one that is not (its label map is not a mapping, say),
\* transform returns the point of the valid one, never an empty list.
C20_BadRowCostsItselfOnly ==
    ( /\ tpc = "returned"
      /\ Len(samples) = 2
      /\ \E i \in 1..2 : ValidSample(samples[i]) /\ ~ValidSample(samples[3 - i]) )
    => \E j \in 1..Len(influxdb_data) :
          \E i \in 1..2 : /\ ValidSample(samples[i])
                          /\ influxdb_data[j].fields = [value |-> samples[i].value]
                          /\ influxdb_data[j].timestamp = samples[i].timestamp

\* C21: every point transform returns, under every cleaning configuration
\* (validate_timestamps or remove_nulls switched off included), has a
\* measurement that is a non-empty string, a field, and a timestamp that is
\* not null.
C21_PointsAreWellFormed ==
    tpc = "returned" =>
        \A j \in 1..Len(influxdb_data) :
            /\ influxdb_data[j].measurement # ""
            /\ DOMAIN influxdb_data[j].fields # {}
            /\ influxdb_data[j].timestamp \notin {None, NaN}

\* C26: the nulls are removed before the duplicates. With remove_nulls and
\* remove_duplicates enabled, of two samples with the same timestamp, metric
\* name and labels, the first without a value and the second valid, transform
\* gives one point, with the value of the second; of two such samples that
\* are both valid it gives one point, with the value of the first.
C26_NullsBeforeDuplicates ==
    ( /\ tpc = "returned"
      /\ cleaning_config.remove_nulls /\ cleaning_config.remove_duplicates
      /\ Len(samples) = 2
      /\ samples[1].timestamp = samples[2].timestamp
      /\ samples[1].metric_name = samples[2].metric_name
      /\ samples[1].labels = samples[2].labels
      /\ ValidSample(samples[2])
      /\ samples[1].value # samples[2].value
      /\ samples[1].value.kind \in {"none", "missing"} \/ ValidSample(samples[1]) )
    => /\ Len(influxdb_data) = 1
       /\ influxdb_data[1].fields.value =
              IF ValidSample(samples[1]) THEN samples[1].value ELSE samples[2].value

\* C27: the metric_type tag of every point transform returns is one of
\* valid_metrics: a sample of another metric never reaches the output.
C27_OnlyValidMetrics ==
    tpc = "returned" =>
        \A j \in 1..Len(influxdb_data) :
            influxdb_data[j].tags["metric_type"].text \in valid_metrics

\* C24: total_data_points counts the points the loader has written to the
\* store: a step adds to it exactly the number of points that the load_data
\* call returning in that step has written, and nothing otherwise.
C24_CountsWhatWasWritten ==
    [][ stats'.total_data_points - stats.total_data_points =
            IF written = Unset /\ written' # Unset THEN written' ELSE 0 ]_vars

\* C25: inside one run_single_cycle the stages come in the order extract,
\* transform, load, each once at most: the transformer is called only after
\* an extraction that returned something, load_data only after a
\* transformation that returned something, and once load_data has returned,
\* failed or not, the cycle only returns.
C25_StagesInOrder ==
    [][ LET Stage(p) == CASE p = "cy_extract" -> 1
                          [] p = "cy_transform" -> 2
                          [] p = "ld_check" -> 3
                          [] p \in InitClientPCs -> 4
                          [] p = "ld_write" -> 5
                          [] p = "cy_return" -> 6
        IN  (InCycle /\ InCycle') =>
              /\ Stage(pc') >= Stage(pc)
              /\ (pc' = "cy_transform" /\ pc # "cy_transform")
                     => pc = "cy_extract" /\ raw_data' > 0
              /\ (pc' = "ld_check" /\ pc # "ld_check")
                     => pc = "cy_transform" /\ transformed_data' > 0
              /\ raw_data # Unset => raw_data' = raw_data
              /\ transformed_data # Unset => transformed_data' = transformed_data
              /\ load_success # None
                     => load_success' = load_success /\ pc' = "cy_return" ]_vars

\* A cycle of the loop is returning after the load of its two points failed.
C25_Witness ==
    /\ pc = "cy_return" /\ caller = "loop"
    /\ raw_data = 2 /\ transformed_data = 2
    /\ load_success = False /\ written = 0
    /\ success = False

\* C29: every run_single_cycle that returns adds 1 to exactly one of
\* cycles_completed and cycles_failed, the one its return value names, and no
\* other step changes either; so their sum is the number of cycles run, and
\* the success rate reported lies between 0 and 100.
C29_OneCounterPerCycle ==
    [][ /\ CycleEnds =>
              /\ success' \in {True, False}
              /\ stats'.cycles_completed =
                     stats.cycles_completed + IF success' = True THEN 1 ELSE 0
              /\ stats'.cycles_failed =
                     stats.cycles_failed + IF success' = False THEN 1 ELSE 0
        /\ ~CycleEnds =>
              /\ stats'.cycles_completed = stats.cycles_completed
              /\ stats'.cycles_failed = stats.cycles_failed
        /\ LET rate == report'.success_rate
           IN  0 <= rate[1] /\ rate[1] <= 100 * rate[2] ]_vars

\* After a cycle that returned True and one that returned False,
\* get_statistics() reports two cycles and a success rate of 50.
C29_Witness ==
    /\ pc = "rp_return"
    /\ stats.cycles_completed = 1 /\ stats.cycles_failed = 1
    /\ report.total_cycles = 2
    /\ report.success_rate = << 100, 2 >>
    /\ report.status = None

\* C30: a stop request is not lost. When the stop() of T has returned and M
\* then calls run_continuous, the loop's start-up leaves the running flag
\* False, so that no cycle is run.
C30_StopNotLost ==
    [][ (/\ spc["T"] = "done" /\ ~running
         /\ pc = "top" /\ pc' = "rc_while")
        => ~running' ]_vars

\* C22: extract_metrics never raises to its caller; it issues at most
\* retry_attempts requests; the first attempt whose response has status
\* 'success' ends the call with the parsed samples of that response and no
\* further request; an attempt that fails is followed by another one unless it
\* was the last, and then the call returns the empty list.
C22_ExtractNeverRaises ==
    [][ /\ epc' # "raised"
        /\ requests' <= retry_attempts
        /\ requests' \in {requests, requests + 1}
        /\ epc = "returned" => (requests' = requests /\ extracted' = extracted)
        /\ requests' = requests + 1 =>
              IF response'.kind = "success"
              THEN /\ epc' = "returned"
                   /\ extracted' = ParseResponse(response'.values)
              ELSE IF requests' = retry_attempts
                   THEN epc' = "returned" /\ extracted' = << >>
                   ELSE epc' = "loop"
        /\ (requests' = requests /\ epc' = "returned") => extracted' = << >>
      ]_vars

\* The first request failed, the second brought status 'success' and the third
\* was never made.
C22_Witness ==
    /\ epc = "returned"
    /\ retry_attempts = DefaultRetryAttempts
    /\ requests = 2
    /\ response.kind = "success"
    /\ response.values = << "1", "0" >>
    /\ extracted = << Num(1), Num(0) >>

\* C28: every sample _parse_response emits carries a finite number; NaN, +Inf
\* and -Inf never are the value of a sample.
C28_ValuesAreFinite ==
    epc = "returned" =>
        \A i \in 1..Len(extracted) : extracted[i].kind = "num"

\* C23: validate_data_format returns True for every list of well-formed
\* points (a datetime timestamp included) and for the empty list, and False as
\* soon as a point lacks measurement, fields or timestamp.
C23_ValidatesPointShape ==
    format_valid # None =>
        /\ (\A i \in 1..Len(checked_data) :
                /\ checked_data[i].measurement = "str"
                /\ checked_data[i].fields = "dict"
                /\ checked_data[i].timestamp \in {"str", "float", "datetime"})
              => format_valid = True
        /\ (\E i \in 1..Len(checked_data) :
                "missing" \in {checked_data[i].measurement, checked_data[i].fields,
                               checked_data[i].timestamp})
              => format_valid = False

====
